---- MODULE Spec2Model ----
(***************************************************************************)
(* Model of the windowed mail-ingest pipeline of main.py: the daily window *)
(* (compute_window_cet), the retrying GET (graph_get), the two paging      *)
(* loops (list_messages_in_window, download_pdf_attachments), the local    *)
(* cache write and the bucket upload, as driven by main().                 *)
(*                                                                         *)
(* Time is counted in whole hours.  A UTC instant is a natural number of   *)
(* hours since 00:00Z of day 0; a local (zone) date-time is a pair of a    *)
(* naive hour count and the fold bit of PEP 495.  Text is a sequence of    *)
(* one-character strings.                                                  *)
(***************************************************************************)
EXTENDS Integers, Sequences, FiniteSets, TLC

VARIABLES
    pc,          \* position of main() / of the generator it drives
    clock,       \* the UTC instant datetime.now() reads
    window,      \* the tuple compute_window_cet returned, or None
    mailbox,     \* the server's messages, newest first
    local_dir,   \* DOWNLOAD_DIR after normalisation: a path or None
    url,         \* list_messages_in_window: the page to request
    data,        \* list_messages_in_window: the decoded page
    mi,          \* list_messages_in_window: items of data already yielded
    msg,         \* main: the message being handled
    att_url,     \* download_pdf_attachments: the page to request
    att_data,    \* download_pdf_attachments: the decoded page
    ai,          \* download_pdf_attachments: items of att_data already seen
    art,         \* download_pdf_attachments: (fname, blob) being stored
    saved, total_msgs, total_pdfs,
    call,        \* the graph_get invocation in progress: its url, attempts, sleeps
    storage,     \* the bucket: object name -> bytes
    localfs,     \* files under local_dir: name -> bytes
    raised,      \* the exception that left main(), or None
    yielded,     \* history: ids of the messages the generator yielded
    fetched,     \* history: urls whose GET returned a page
    seen,        \* history: (message id, position) of attachment entries visited
    uploads,     \* history: completed uploads, in order
    io,          \* history: counters of side effects started
    result,      \* what main() returned to its caller: <<>> until it returns
    peer,        \* the private state of a second, overlapping run, or None
    stdout,      \* sys.stdout of the process: its target and what each sink holds
    capture      \* run_ingest_with_capture around this run: buffer, saved target

vars == <<pc, clock, window, mailbox, local_dir, url, data, mi, msg, att_url,
          att_data, ai, art, saved, total_msgs, total_pdfs, call, storage,
          localfs, raised, yielded, fetched, seen, uploads, io, result, peer,
          stdout, capture>>

\* None where text is expected (no text holds a many-letter element), and
\* None where a record is expected
None    == <<"None">>
NoneRec == [none |-> TRUE]

Min(a, b) == IF a <= b THEN a ELSE b

(***************************************************************************)
(* Bounds of the model.                                                    *)
(***************************************************************************)
MaxMsgs     == 3    \* messages in the mailbox
PageSize    == 2    \* entries the server puts on one page
MaxThrottle == 2    \* consecutive throttled answers to one request
LastDay     == 7    \* the clock runs over days 1 .. LastDay

(***************************************************************************)
(* The zone Europe/Copenhagen on a short calendar: UTC+1, UTC+2 from       *)
(* 01:00Z of SpringDay (02:00 local jumps to 03:00), UTC+1 again from      *)
(* 01:00Z of FallDay (03:00 local falls back to 02:00).                    *)
(***************************************************************************)
SpringDay == 2
FallDay   == 5
SpringU   == SpringDay * 24 + 1
FallU     == FallDay * 24 + 1
StdOff    == 1
DstOff    == 2

\* utcoffset of an instant
UtcOffsetAt(u) == IF u >= SpringU /\ u < FallU THEN DstOff ELSE StdOff

\* ZoneInfo.fromutc: instant -> local date-time (fold = 1 on the repeated hour)
FromUtc(u) ==
    [naive |-> u + UtcOffsetAt(u),
     fold  |-> IF u >= FallU /\ u < FallU + (DstOff - StdOff) THEN 1 ELSE 0]

\* ZoneInfo.utcoffset of a local date-time: wall-clock transition times, the
\* later reading of a transition for fold = 0 and the earlier for fold = 1
UtcOffsetLocal(dt) ==
    LET spring == IF dt.fold = 0 THEN SpringU + DstOff ELSE SpringU + StdOff
        fall   == IF dt.fold = 0 THEN FallU + DstOff ELSE FallU + StdOff
    IN  IF dt.naive >= spring /\ dt.naive < fall THEN DstOff ELSE StdOff

\* datetime.astimezone(UTC): local date-time -> instant
ToUtc(dt) == dt.naive - UtcOffsetLocal(dt)

\* datetime.replace(hour=h, minute=0, second=0, microsecond=0): date and fold kept
ReplaceHour(dt, h) == [naive |-> (dt.naive \div 24) * 24 + h, fold |-> dt.fold]

\* n times 24 hours of elapsed time instead
PlusDaysElapsed(dt, n) ==
    [naive |-> dt.naive - UtcOffsetLocal(dt) + 24 * n
                 + UtcOffsetAt(dt.naive - UtcOffsetLocal(dt) + 24 * n),
     fold  |-> 0]

\* aware datetime + timedelta(days=n): wall-clock arithmetic, tzinfo and fold kept
PlusDays(dt, n) == [naive |-> dt.naive + 24 * n, fold |-> dt.fold]

\* a strict comparison in its place
LocalGt(a, b) == a.naive > b.naive

\* a >= b for two aware datetimes of the same tzinfo: naive fields compared
LocalGe(a, b) == a.naive >= b.naive

CutoffHour == 6

(***************************************************************************)
(* Text.                                                                   *)
(***************************************************************************)
DigitChars == <<"0", "1", "2", "3", "4", "5", "6", "7", "8", "9">>
Digit(n) == DigitChars[n + 1]
DigitVal(c) == CHOOSE n \in 0..9 : DigitChars[n + 1] = c
IsDigit(c) == \E n \in 0..9 : DigitChars[n + 1] = c
TwoDigits(n) == <<Digit(n \div 10), Digit(n % 10)>>

\* isoformat(timespec="seconds") + "Z" of a naive UTC datetime; the calendar
\* is one month long, day k of the model is the (k+1)-th of the month
IsoZ(u) ==
    <<"2", "0", "2", "4", "-", "0", "3", "-">> \o TwoDigits(u \div 24 + 1)
        \o <<"T">> \o TwoDigits(u % 24) \o <<":", "0", "0", ":", "0", "0", "Z">>

\* the server's reading of such a timestamp
ParseIsoZ(s) ==
    ((DigitVal(s[9]) * 10 + DigitVal(s[10])) - 1) * 24
        + DigitVal(s[12]) * 10 + DigitVal(s[13])

\* str.replace(c, "")
Remove(s, c) == SelectSeq(s, LAMBDA x : x # c)

\* str.replace(c, d) for single characters
Replace(s, c, d) == [i \in 1..Len(s) |-> IF s[i] = c THEN d ELSE s[i]]

RECURSIVE LStrip(_)
LStrip(s) == IF s # <<>> /\ Head(s) = " " THEN LStrip(Tail(s)) ELSE s

RECURSIVE RStrip(_)
RStrip(s) ==
    IF s # <<>> /\ s[Len(s)] = " " THEN RStrip(SubSeq(s, 1, Len(s) - 1)) ELSE s

\* str.strip()
Strip(s) == RStrip(LStrip(s))

\* s[:n]
Truncate(s, n) == SubSeq(s, 1, Min(n, Len(s)))

LowerChar(c) ==
    CASE c = "A" -> "a" [] c = "D" -> "d" [] c = "F" -> "f" [] c = "I" -> "i"
      [] c = "P" -> "p" [] OTHER -> c

\* str.lower()
Lower(s) == [i \in 1..Len(s) |-> LowerChar(s[i])]

\* str.endswith(t)
EndsWith(s, t) ==
    Len(s) >= Len(t) /\ SubSeq(s, Len(s) - Len(t) + 1, Len(s)) = t

(***************************************************************************)
(* compute_window_cet                                                      *)
(***************************************************************************)
compute_window_cet(u) ==
    LET now         == FromUtc(u)
        today_six   == ReplaceHour(now, CutoffHour)
        start_local == IF LocalGe(now, today_six) THEN today_six
                       ELSE PlusDays(today_six, -1)
        end_local   == PlusDays(start_local, 1)
    IN  [start_iso_z |-> IsoZ(ToUtc(start_local)),
         end_iso_z   |-> IsoZ(ToUtc(end_local)),
         start_local |-> start_local,
         end_local   |-> end_local,
         now         |-> now]

(***************************************************************************)
(* base64.b64decode (binascii.a2b_base64, not strict): characters outside  *)
(* the alphabet are dropped, each group of four sextets gives three bytes, *)
(* a completed pad ends the input, and data left in an unfinished group    *)
(* raises binascii.Error.                                                  *)
(***************************************************************************)
B64Chars == <<"A", "B", "C", "D", "I", "J", "Q", "U", "g", "w">>
B64Vals  == <<0, 1, 2, 3, 8, 9, 16, 20, 32, 48>>
InB64(c) == \E k \in 1..Len(B64Chars) : B64Chars[k] = c
B64Val(c) == B64Vals[CHOOSE k \in 1..Len(B64Chars) : B64Chars[k] = c]

DecodeError == [ok |-> FALSE, bytes |-> <<>>]

RECURSIVE a2b_base64(_, _, _, _, _, _)
a2b_base64(s, i, quad_pos, leftchar, pads, out) ==
    IF i > Len(s)
    THEN IF quad_pos # 0 THEN DecodeError ELSE [ok |-> TRUE, bytes |-> out]
    ELSE IF s[i] = "="
    THEN IF quad_pos >= 2 /\ quad_pos + pads + 1 >= 4
         THEN [ok |-> TRUE, bytes |-> out]
         ELSE a2b_base64(s, i + 1, quad_pos, leftchar,
                         IF quad_pos >= 2 THEN pads + 1 ELSE pads, out)
    ELSE IF ~InB64(s[i])
    THEN a2b_base64(s, i + 1, quad_pos, leftchar, pads, out)
    ELSE LET v == B64Val(s[i]) IN
         CASE quad_pos = 0 -> a2b_base64(s, i + 1, 1, v, 0, out)
           [] quad_pos = 1 ->
                a2b_base64(s, i + 1, 2, v % 16, 0,
                           Append(out, leftchar * 4 + v \div 16))
           [] quad_pos = 2 ->
                a2b_base64(s, i + 1, 3, v % 4, 0,
                           Append(out, leftchar * 16 + v \div 4))
           [] quad_pos = 3 ->
                a2b_base64(s, i + 1, 0, 0, 0, Append(out, leftchar * 64 + v))

b64decode(s) == a2b_base64(s, 1, 0, 0, 0, <<>>)

(***************************************************************************)
(* Attachment entries and the name of the stored object                    *)
(* (download_pdf_attachments, the body of its for loop).                   *)
(***************************************************************************)
FileAttachment == "#microsoft.graph.fileAttachment"
ItemAttachment == "#microsoft.graph.itemAttachment"

ApplicationPdf ==
    <<"a", "p", "p", "l", "i", "c", "a", "t", "i", "o", "n", "/", "p", "d", "f">>
DotPdf == <<".", "p", "d", "f">>
DefaultName == <<"a", "t", "t", "a", "c", "h", "m", "e", "n", "t">>

\* x or d: None and the empty string are both false
OrElse(x, d) == IF x = None \/ x = <<>> THEN d ELSE x

AttName(att) == OrElse(att.name, DefaultName)

IsFile(att) == att.odata_type = FileAttachment

\* both conditions required
is_pdf_both(att) ==
    /\ Lower(OrElse(att.contentType, <<>>)) = ApplicationPdf
    /\ EndsWith(Lower(AttName(att)), DotPdf)

is_pdf(att) ==
    \/ Lower(OrElse(att.contentType, <<>>)) = ApplicationPdf
    \/ EndsWith(Lower(AttName(att)), DotPdf)

\* no test of the payload
HasContentAlways(att) == TRUE

HasContent(att) == att.contentBytes # None /\ att.contentBytes # <<>>

\* the entries the loop body stores: file attachment, PDF, payload present
Stored(att) == IsFile(att) /\ is_pdf(att) /\ HasContent(att)

SubjectMax == 80

Rdt(message) == Remove(Remove(message.receivedDateTime, ":"), "-")

Subj(message) ==
    Truncate(Replace(Strip(OrElse(message.subject, <<>>)), "/", "_"), SubjectMax)

Fname(message, att) ==
    Rdt(message) \o <<"_", "_">> \o Subj(message) \o <<"_", "_">> \o AttName(att)

(***************************************************************************)
(* graph_get and throttle_sleep: the statuses and the Retry-After header.  *)
(***************************************************************************)
Statuses == {200, 429, 503, 504, 400, 404, 500}

\* a status list that misses 504
IsThrottledNarrow(status) == status \in {429, 503}

IsThrottled(status) == status \in {429, 503, 504}

\* only server errors raise
IsHttpErrorServerOnly(status) == status >= 500

IsHttpError(status) == status >= 400

\* U+00B2: a character str.isdigit() accepts and int() rejects
SuperscriptTwo == "²"

RetryAfterValues == {None, <<"5">>, <<"s", "o", "o", "n">>, <<SuperscriptTwo>>}

DefaultDelay == 3

\* str.isdigit(): decimal digits and the other characters of digit type
IsDigitString(s) ==
    s # <<>> /\ \A i \in 1..Len(s) : IsDigit(s[i]) \/ s[i] = SuperscriptTwo

\* int(s) raises ValueError unless every character is a decimal digit
IntRaises(s) == \E i \in 1..Len(s) : ~IsDigit(s[i])

RECURSIVE IntOf(_)
IntOf(s) == IF s = <<>> THEN 0
            ELSE IntOf(SubSeq(s, 1, Len(s) - 1)) * 10 + DigitVal(s[Len(s)])

\* the header passes the isdigit test and int() then raises
ThrottleSleepRaises(retry_after) ==
    /\ retry_after # None /\ retry_after # <<>>
    /\ IsDigitString(retry_after)
    /\ IntRaises(retry_after)

\* the seconds throttle_sleep sleeps for a response with this Retry-After
throttle_sleep(retry_after) ==
    IF retry_after # None /\ retry_after # <<>> /\ IsDigitString(retry_after)
    THEN IntOf(retry_after)
    ELSE DefaultDelay

(***************************************************************************)
(* The mailbox the server holds.  A stored message has its receive instant *)
(* t and its attachment entries atts beside the fields the listing         *)
(* projects; hasAttachments is <<>> when the field is absent.              *)
(***************************************************************************)
Text_x_pdf   == <<"x", ".", "p", "d", "f">>
Text_notes   == <<"n", "o", "t", "e", "s", ".", "t", "x", "t">>
Text_Invoice == <<"I", "n", "v", "o", "i", "c", "e", ".", "P", "D", "F">>
Text_plain   == <<"t", "e", "x", "t", "/", "p", "l", "a", "i", "n">>
Text_AppPDF  ==
    <<"A", "p", "p", "l", "i", "c", "a", "t", "i", "o", "n", "/", "P", "D", "F">>
LongSubject(c) == [i \in 1..SubjectMax |-> "x"] \o <<c>>

Att(type, name, ctype, bytes) ==
    [odata_type |-> type, name |-> name, contentType |-> ctype,
     contentBytes |-> bytes]

A_x1    == Att(FileAttachment, Text_x_pdf, <<>>, <<"Q", "Q", "=", "=">>)
A_x2    == Att(FileAttachment, Text_x_pdf, ApplicationPdf, <<"Q", "g", "=", "=">>)
A_x3    == Att(FileAttachment, Text_x_pdf, None, <<"Q", "U", "I", "=">>)
A_bad   == Att(FileAttachment, Text_x_pdf, ApplicationPdf, <<"Q", "Q", "=">>)
A_item  == Att(ItemAttachment, Text_x_pdf, ApplicationPdf, None)
A_txt   == Att(FileAttachment, Text_notes, Text_plain, <<"Q", "U", "J", "D">>)
A_ctype == Att(FileAttachment, Text_notes, Text_AppPDF, <<"Q", "U", "J", "D">>)
A_upper == Att(FileAttachment, Text_Invoice, None, <<"Q", "g", "=", "=">>)
A_empty == Att(FileAttachment, Text_x_pdf, ApplicationPdf, <<>>)
A_anon  == Att(FileAttachment, None, ApplicationPdf, <<"Q", "Q", "=", "=">>)

Stored_msg(id, t, subject, has, atts) ==
    [id |-> id, t |-> t, subject |-> subject, hasAttachments |-> has,
     atts |-> atts]

\* newest first, as the listing orders them
Catalogue ==
    << Stored_msg("m1", 52, <<"e">>, <<TRUE>>, <<A_x1>>),
       Stored_msg("m2", 51, None, <<FALSE>>, <<>>),
       Stored_msg("m10", 45, <<"f">>, <<>>, <<A_x1>>),
       Stored_msg("m3", 40, LongSubject("y"), <<TRUE>>, <<A_x1>>),
       Stored_msg("m4", 40, LongSubject("z"), <<TRUE>>, <<A_x2, A_bad, A_x3>>),
       Stored_msg("m5", 29, <<"a", "/", "b">>, <<TRUE>>, <<A_x1, A_x2, A_item>>),
       Stored_msg("m6", 29, <<" ", "a", "_", "b", " ">>, <<TRUE>>, <<A_x3>>),
       Stored_msg("m7", 28, <<"c">>, <<TRUE>>, <<A_anon>>),
       Stored_msg("m8", 5, <<"d">>, <<TRUE>>,
                  <<A_txt, A_ctype, A_upper, A_empty>>),
       Stored_msg("m9", 4, <<"d">>, <<>>, <<>>) >>

Mailboxes ==
    { SelectSeq(Catalogue, LAMBDA m : m.id \in S) :
        S \in { T \in SUBSET { Catalogue[k].id : k \in 1..Len(Catalogue) } :
                  Cardinality(T) <= MaxMsgs } }

\* the instants main() is started at: before the cutoff of day 1, and after it
\* (the window then ends after the clocks go forward)
RunClocks == {24 + 2, 24 + 9}

\* every hour of days 1 .. LastDay
AllClocks == 24 .. (LastDay + 1) * 24 - 1

Downloads == <<".", "/", "d", "o", "w", "n", "l", "o", "a", "d", "s">>

(***************************************************************************)
(* The Graph endpoints.  A url names the collection, the $filter and the   *)
(* position the server resumes at (carried by a next link).                *)
(***************************************************************************)
Top == 50

NoFilter == [lo_op |-> "", lo |-> None, hi_op |-> "", hi |-> None]

\* a filter that is inclusive at both ends
MessagesUrlClosed(start_iso_z, end_iso_z) ==
    [kind |-> "messages", mid |-> "", top |-> Top, skip |-> 0,
     flt |-> [lo_op |-> "ge", lo |-> start_iso_z,
              hi_op |-> "le", hi |-> end_iso_z]]

\* the listing the generator starts from (list_messages_in_window, prologue)
MessagesUrl(start_iso_z, end_iso_z) ==
    [kind |-> "messages", mid |-> "", top |-> Top, skip |-> 0,
     flt |-> [lo_op |-> "ge", lo |-> start_iso_z,
              hi_op |-> "lt", hi |-> end_iso_z]]

\* the listing download_pdf_attachments starts from
AttachmentsUrl(mid) ==
    [kind |-> "attachments", mid |-> mid, top |-> Top, skip |-> 0,
     flt |-> NoFilter]

\* OData comparison operators on instants
Compare(a, op, b) ==
    CASE op = "ge" -> a >= b [] op = "gt" -> a > b
      [] op = "le" -> a <= b [] op = "lt" -> a < b

\* receivedDateTime <lo_op> <lo> and receivedDateTime <hi_op> <hi>
Matches(m, flt) ==
    /\ Compare(m.t, flt.lo_op, ParseIsoZ(flt.lo))
    /\ Compare(m.t, flt.hi_op, ParseIsoZ(flt.hi))

\* $select=id,subject,receivedDateTime,hasAttachments
Project(m) ==
    [id |-> m.id, subject |-> m.subject, receivedDateTime |-> IsoZ(m.t),
     hasAttachments |-> m.hasAttachments]

Collection(box, u) ==
    IF u.kind = "messages"
    THEN LET hit == SelectSeq(box, LAMBDA m : Matches(m, u.flt))
         IN  [k \in 1..Len(hit) |-> Project(hit[k])]
    ELSE LET own == SelectSeq(box, LAMBDA m : m.id = u.mid)
         IN  IF own = <<>> THEN <<>> ELSE own[1].atts

\* the body of a 200 answer: one page and, when more follows, its next link
ServerGet(box, u) ==
    LET all == Collection(box, u)
        n   == Min(u.top, PageSize)
    IN  [value    |-> SubSeq(all, u.skip + 1, Min(u.skip + n, Len(all))),
         nextLink |-> IF u.skip + n < Len(all)
                      THEN [u EXCEPT !.skip = @ + n] ELSE NoneRec]

\* a test for an explicit false only
TruthyUnlessFalse(flag) == flag # <<FALSE>>

\* message.get("hasAttachments") as a condition
Truthy(flag) == flag = <<TRUE>>

\* a loop that does not follow the next link
NextLinkDropped(page) == NoneRec

\* data.get("@odata.nextLink")
NextLink(page) == page.nextLink

\* a store that keeps the object it already has
PutIfAbsent(store, name, bytes) ==
    [k \in DOMAIN store \cup {name} |->
        IF k \in DOMAIN store THEN store[k] ELSE bytes]

\* blob.upload_from_string: the object of that name is created or replaced
Put(store, name, bytes) ==
    [k \in DOMAIN store \cup {name} |-> IF k = name THEN bytes ELSE store[k]]

(***************************************************************************)
(* The run: main() and the generator and functions it drives.              *)
(***************************************************************************)
NoCall ==
    [url |-> NoneRec, attempts |-> 0, slept |-> 0, status |-> 0,
     retry_after |-> None]
NewCall(u) == [NoCall EXCEPT !.url = u]
\* sys.stdout as the interpreter starts it; sinks hold the ids of the runs
\* whose lines they received. A run started from the command line has id
\* Console and no buffer.
Console == 0
NoCapture == [id |-> Console, old |-> Console, output |-> {}]

NoArt  == [fname |-> None, blob |-> <<>>]
NoIo   == [lookups |-> 0, writes |-> <<>>, upload_calls |-> <<>>]

Exc(type, detail) == [exc |-> type, detail |-> detail]

InitRest ==
    /\ pc = "main"
    /\ window = NoneRec
    /\ url = NoneRec /\ data = NoneRec /\ mi = 0
    /\ msg = NoneRec
    /\ att_url = NoneRec /\ att_data = NoneRec /\ ai = 0
    /\ art = NoArt
    /\ saved = 0 /\ total_msgs = 0 /\ total_pdfs = 0
    /\ call = NoCall
    /\ storage = <<>> /\ localfs = <<>>
    /\ raised = NoneRec
    /\ yielded = <<>> /\ fetched = <<>> /\ seen = <<>> /\ uploads = <<>>
    /\ io = NoIo
    /\ result = <<>>
    /\ stdout = [target |-> Console, console |-> {}, buffers |-> <<{}, {}>>]
    /\ capture = NoCapture

Init ==
    /\ clock \in RunClocks
    /\ mailbox \in Mailboxes
    /\ local_dir \in {None, Downloads}
    /\ peer = NoneRec
    /\ InitRest

\* print(...): a line of this run goes to whatever sys.stdout is now
StdoutWrite ==
    stdout' = IF stdout.target = Console
              THEN [stdout EXCEPT !.console = @ \cup {capture.id}]
              ELSE [stdout EXCEPT !.buffers[stdout.target] = @ \cup {capture.id}]

\* an exception leaves main(): nothing catches it
Raise(e) == raised' = e /\ pc' = "raised"

\* a start that goes on to the window without the bucket
MainStartSkipsBucket ==
    /\ pc = "main"
    /\ pc' = "window"
    /\ UNCHANGED <<clock, window, mailbox, local_dir, url, data, mi, msg,
                   att_url, att_data, ai, art, saved, total_msgs, total_pdfs,
                   call, storage, localfs, raised, yielded, fetched, seen,
                   uploads, io, result, peer, stdout, capture>>

\* main, lines 195-200: the cache directory, the token, the session
MainStart ==
    /\ pc = "main"
    /\ pc' = "bucket"
    /\ UNCHANGED <<clock, window, mailbox, local_dir, url, data, mi, msg,
                   att_url, att_data, ai, art, saved, total_msgs, total_pdfs,
                   call, storage, localfs, raised, yielded, fetched, seen,
                   uploads, io,
                   result, peer, stdout, capture>>

\* get_app_token finds no access_token in the answer
TokenFails ==
    /\ pc = "main"
    /\ Raise(Exc("RuntimeError", 0))
    /\ UNCHANGED <<clock, window, mailbox, local_dir, url, data, mi, msg,
                   att_url, att_data, ai, art, saved, total_msgs, total_pdfs,
                   call, storage, localfs, yielded, fetched, seen, uploads, io,
                   result, peer, stdout, capture>>

\* get_gcs_bucket returns the bucket
GetBucket ==
    /\ pc = "bucket"
    /\ pc' = "window"
    /\ io' = [io EXCEPT !.lookups = @ + 1]
    /\ UNCHANGED <<clock, window, mailbox, local_dir, url, data, mi, msg,
                   att_url, att_data, ai, art, saved, total_msgs, total_pdfs,
                   call, storage, localfs, raised, yielded, fetched, seen,
                   uploads,
                   result, peer, stdout, capture>>

\* get_gcs_bucket: NotFound, re-raised as RuntimeError
BucketNotFound ==
    /\ pc = "bucket"
    /\ io' = [io EXCEPT !.lookups = @ + 1]
    /\ Raise(Exc("RuntimeError", 0))
    /\ UNCHANGED <<clock, window, mailbox, local_dir, url, data, mi, msg,
                   att_url, att_data, ai, art, saved, total_msgs, total_pdfs,
                   call, storage, localfs, yielded, fetched, seen, uploads,
                   result, peer, stdout, capture>>

\* main, lines 203-211
ComputeWindow ==
    /\ pc = "window"
    /\ window' = compute_window_cet(clock)
    /\ total_msgs' = 0 /\ total_pdfs' = 0
    /\ pc' = "list"
    /\ StdoutWrite
    /\ UNCHANGED <<clock, mailbox, local_dir, url, data, mi, msg, att_url,
                   att_data, ai, art, saved, call, storage, localfs, raised,
                   yielded, fetched, seen, uploads, io,
                   result, peer, capture>>

\* list_messages_in_window, lines 137-145: the first url, then graph_get
ListStart ==
    /\ pc = "list"
    /\ url' = MessagesUrl(window.start_iso_z, window.end_iso_z)
    /\ call' = NewCall(url')
    /\ pc' = "list_get"
    /\ UNCHANGED <<clock, window, mailbox, local_dir, data, mi, msg, att_url,
                   att_data, ai, art, saved, total_msgs, total_pdfs, storage,
                   localfs, raised, yielded, fetched, seen, uploads, io,
                   result, peer, stdout, capture>>

InGet == pc \in {"list_get", "att_get"}

\* a server that never stops throttling: the attempts are no longer counted
\* beyond MaxThrottle
GraphGetThrottledForever ==
    /\ InGet
    /\ \E status \in Statuses, retry_after \in RetryAfterValues :
         /\ IsThrottled(status)
         /\ ~ThrottleSleepRaises(retry_after)
         /\ call' = [call EXCEPT !.attempts = Min(@ + 1, MaxThrottle),
                                 !.status = status,
                                 !.retry_after = retry_after,
                                 !.slept = throttle_sleep(retry_after)]
    /\ UNCHANGED <<pc, clock, window, mailbox, local_dir, url, data, mi, msg,
                   att_url, att_data, ai, art, saved, total_msgs, total_pdfs,
                   storage, localfs, raised, yielded, fetched, seen, uploads,
                   io, result, peer, stdout, capture>>

\* graph_get, lines 67-71: 429, 503 or 504: throttle_sleep, then the same
\* request again. The code has no cap; the server of the model throttles one
\* request at most MaxThrottle times in a row.
GraphGetThrottled ==
    /\ InGet
    /\ call.attempts < MaxThrottle
    /\ \E status \in Statuses, retry_after \in RetryAfterValues :
         /\ IsThrottled(status)
         /\ ~ThrottleSleepRaises(retry_after)
         /\ call' = [call EXCEPT !.attempts = @ + 1, !.status = status,
                                 !.retry_after = retry_after,
                                 !.slept = throttle_sleep(retry_after)]
    /\ UNCHANGED <<pc, clock, window, mailbox, local_dir, url, data, mi, msg,
                   att_url, att_data, ai, art, saved, total_msgs, total_pdfs,
                   storage, localfs, raised, yielded, fetched, seen, uploads,
                   io,
                   result, peer, stdout, capture>>

\* graph_get: 429, 503 or 504 with a Retry-After that int() rejects:
\* throttle_sleep raises ValueError
GraphGetThrottledRaises ==
    /\ InGet
    /\ call.attempts < MaxThrottle
    /\ \E status \in Statuses, retry_after \in RetryAfterValues :
         /\ IsThrottled(status)
         /\ ThrottleSleepRaises(retry_after)
         /\ call' = [call EXCEPT !.attempts = @ + 1, !.status = status,
                                 !.retry_after = retry_after, !.slept = 0]
         /\ Raise(Exc("ValueError", status))
    /\ UNCHANGED <<clock, window, mailbox, local_dir, url, data, mi, msg,
                   att_url, att_data, ai, art, saved, total_msgs, total_pdfs,
                   storage, localfs, yielded, fetched, seen, uploads, io,
                   result, peer, stdout, capture>>

\* graph_get: another status >= 400: raise_for_status
GraphGetError ==
    /\ InGet
    /\ \E status \in Statuses :
         /\ ~IsThrottled(status)
         /\ IsHttpError(status)
         /\ call' = [call EXCEPT !.attempts = @ + 1, !.status = status,
                                 !.retry_after = None, !.slept = 0]
         /\ Raise(Exc("HTTPError", status))
    /\ StdoutWrite
    /\ UNCHANGED <<clock, window, mailbox, local_dir, url, data, mi, msg,
                   att_url, att_data, ai, art, saved, total_msgs, total_pdfs,
                   storage, localfs, yielded, fetched, seen, uploads, io,
                   result, peer, capture>>

\* graph_get returns r.json() to the loop that called it
GraphGetOk ==
    /\ InGet
    /\ \E status \in Statuses :
         /\ ~IsThrottled(status)
         /\ ~IsHttpError(status)
         /\ call' = [NewCall(call.url) EXCEPT !.status = status]
    /\ fetched' = Append(fetched, call.url)
    /\ IF pc = "list_get"
       THEN /\ data' = ServerGet(mailbox, call.url)
            /\ mi' = 0
            /\ pc' = "list_iter"
            /\ UNCHANGED <<att_data, ai>>
       ELSE /\ att_data' = ServerGet(mailbox, call.url)
            /\ ai' = 0
            /\ pc' = "att_iter"
            /\ UNCHANGED <<data, mi>>
    /\ UNCHANGED <<clock, window, mailbox, local_dir, url, msg, att_url, art,
                   saved, total_msgs, total_pdfs, storage, localfs, raised,
                   yielded, seen, uploads, io,
                   result, peer, stdout, capture>>

\* the generator yields the next message of the page; main counts it and
\* download_pdf_attachments returns 0 at once (lines 149-150, 214-215, 157-158)
YieldPlain ==
    /\ pc = "list_iter"
    /\ mi < Len(data.value)
    /\ ~Truthy(data.value[mi + 1].hasAttachments)
    /\ mi' = mi + 1
    /\ msg' = data.value[mi + 1]
    /\ yielded' = Append(yielded, msg'.id)
    /\ total_msgs' = total_msgs + 1
    /\ total_pdfs' = total_pdfs + 0
    /\ UNCHANGED <<pc, clock, window, mailbox, local_dir, url, data, att_url,
                   att_data, ai, art, saved, call, storage, localfs, raised,
                   fetched, seen, uploads, io,
                   result, peer, stdout, capture>>

\* the same for a message with attachments: download_pdf_attachments goes to
\* its first graph_get (lines 159-164)
YieldWithAttachments ==
    /\ pc = "list_iter"
    /\ mi < Len(data.value)
    /\ Truthy(data.value[mi + 1].hasAttachments)
    /\ mi' = mi + 1
    /\ msg' = data.value[mi + 1]
    /\ yielded' = Append(yielded, msg'.id)
    /\ total_msgs' = total_msgs + 1
    /\ att_url' = AttachmentsUrl(msg'.id)
    /\ saved' = 0
    /\ call' = NewCall(att_url')
    /\ pc' = "att_get"
    /\ UNCHANGED <<clock, window, mailbox, local_dir, url, data, att_data, ai,
                   art, total_pdfs, storage, localfs, raised, fetched, seen,
                   uploads, io,
                   result, peer, stdout, capture>>

\* lines 151-153 with a next link: back to graph_get
ListNextPage ==
    /\ pc = "list_iter"
    /\ mi = Len(data.value)
    /\ NextLink(data) # NoneRec
    /\ url' = NextLink(data)
    /\ call' = NewCall(url')
    /\ pc' = "list_get"
    /\ UNCHANGED <<clock, window, mailbox, local_dir, data, mi, msg, att_url,
                   att_data, ai, art, saved, total_msgs, total_pdfs, storage,
                   localfs, raised, yielded, fetched, seen, uploads, io,
                   result, peer, stdout, capture>>

\* main() prints its summary and ends without a return statement: its caller
\* (files = ingest_app.main()) receives None
MainReturnValue == NoneRec

\* lines 151-153 without one: the generator ends, main prints its summary
ListEnd ==
    /\ pc = "list_iter"
    /\ mi = Len(data.value)
    /\ NextLink(data) = NoneRec
    /\ url' = NextLink(data)
    /\ result' = <<MainReturnValue>>
    /\ pc' = "done"
    /\ StdoutWrite
    /\ UNCHANGED <<clock, window, mailbox, local_dir, data, mi, msg, att_url,
                   att_data, ai, art, saved, total_msgs, total_pdfs, call,
                   storage, localfs, raised, yielded, fetched, seen, uploads,
                   io, peer, capture>>

AtEntry == pc = "att_iter" /\ ai < Len(att_data.value)

\* lines 165-173: an entry that is no file attachment, no PDF, or has no payload
AttSkip ==
    /\ AtEntry
    /\ ~Stored(att_data.value[ai + 1])
    /\ ai' = ai + 1
    /\ seen' = Append(seen, <<msg.id, att_data.value[ai + 1]>>)
    /\ UNCHANGED <<pc, clock, window, mailbox, local_dir, url, data, mi, msg,
                   att_url, att_data, art, saved, total_msgs, total_pdfs, call,
                   storage, localfs, raised, yielded, fetched, uploads, io,
                   result, peer, stdout, capture>>

\* lines 174-179: the payload decodes, the object name is built
AttDecode ==
    /\ AtEntry
    /\ Stored(att_data.value[ai + 1])
    /\ b64decode(att_data.value[ai + 1].contentBytes).ok
    /\ seen' = Append(seen, <<msg.id, att_data.value[ai + 1]>>)
    /\ art' = [fname |-> Fname(msg, att_data.value[ai + 1]),
               blob  |-> b64decode(att_data.value[ai + 1].contentBytes).bytes]
    /\ pc' = IF local_dir # None THEN "write" ELSE "upload"
    /\ UNCHANGED <<clock, window, mailbox, local_dir, url, data, mi, msg,
                   att_url, att_data, ai, saved, total_msgs, total_pdfs, call,
                   storage, localfs, raised, yielded, fetched, uploads, io,
                   result, peer, stdout, capture>>

\* line 174: b64decode raises binascii.Error
AttDecodeFails ==
    /\ AtEntry
    /\ Stored(att_data.value[ai + 1])
    /\ ~b64decode(att_data.value[ai + 1].contentBytes).ok
    /\ seen' = Append(seen, <<msg.id, att_data.value[ai + 1]>>)
    /\ Raise(Exc("binascii.Error", 0))
    /\ UNCHANGED <<clock, window, mailbox, local_dir, url, data, mi, msg,
                   att_url, att_data, ai, art, saved, total_msgs, total_pdfs,
                   call, storage, localfs, yielded, fetched, uploads, io,
                   result, peer, stdout, capture>>

\* lines 180-182: the local copy is written
LocalWrite ==
    /\ pc = "write"
    /\ io' = [io EXCEPT !.writes = Append(@, art.fname)]
    /\ localfs' = Put(localfs, art.fname, art.blob)
    /\ pc' = "upload"
    /\ UNCHANGED <<clock, window, mailbox, local_dir, url, data, mi, msg,
                   att_url, att_data, ai, art, saved, total_msgs, total_pdfs,
                   call, storage, raised, yielded, fetched, seen, uploads,
                   result, peer, stdout, capture>>

\* lines 180-182: open() raises OSError
LocalWriteFails ==
    /\ pc = "write"
    /\ io' = [io EXCEPT !.writes = Append(@, art.fname)]
    /\ Raise(Exc("OSError", 0))
    /\ UNCHANGED <<clock, window, mailbox, local_dir, url, data, mi, msg,
                   att_url, att_data, ai, art, saved, total_msgs, total_pdfs,
                   call, storage, localfs, yielded, fetched, seen, uploads,
                   result, peer, stdout, capture>>

\* lines 183-184: upload_pdf_to_bucket, then saved += 1
Upload ==
    /\ pc = "upload"
    /\ io' = [io EXCEPT !.upload_calls = Append(@, art.fname)]
    /\ storage' = Put(storage, art.fname, art.blob)
    /\ uploads' = Append(uploads, art)
    /\ saved' = saved + 1
    /\ ai' = ai + 1
    /\ art' = NoArt
    /\ pc' = "att_iter"
    /\ UNCHANGED <<clock, window, mailbox, local_dir, url, data, mi, msg,
                   att_url, att_data, total_msgs, total_pdfs, call, localfs,
                   raised, yielded, fetched, seen,
                   result, peer, stdout, capture>>

\* a failed upload that is skipped: the loop goes on with the next entry
UploadFailsSkipped ==
    /\ pc = "upload"
    /\ io' = [io EXCEPT !.upload_calls = Append(@, art.fname)]
    /\ ai' = ai + 1
    /\ art' = NoArt
    /\ pc' = "att_iter"
    /\ UNCHANGED <<clock, window, mailbox, local_dir, url, data, mi, msg,
                   att_url, att_data, saved, total_msgs, total_pdfs, call,
                   storage, localfs, raised, yielded, fetched, seen, uploads,
                   result, peer, stdout, capture>>

\* line 183: upload_from_string raises
UploadFails ==
    /\ pc = "upload"
    /\ io' = [io EXCEPT !.upload_calls = Append(@, art.fname)]
    /\ Raise(Exc("GoogleAPIError", 0))
    /\ UNCHANGED <<clock, window, mailbox, local_dir, url, data, mi, msg,
                   att_url, att_data, ai, art, saved, total_msgs, total_pdfs,
                   call, storage, localfs, yielded, fetched, seen, uploads,
                   result, peer, stdout, capture>>

\* lines 187-189 with a next link: back to graph_get
AttNextPage ==
    /\ pc = "att_iter"
    /\ ai = Len(att_data.value)
    /\ NextLink(att_data) # NoneRec
    /\ att_url' = NextLink(att_data)
    /\ call' = NewCall(att_url')
    /\ pc' = "att_get"
    /\ UNCHANGED <<clock, window, mailbox, local_dir, url, data, mi, msg,
                   att_data, ai, art, saved, total_msgs, total_pdfs, storage,
                   localfs, raised, yielded, fetched, seen, uploads, io,
                   result, peer, stdout, capture>>

\* the count of the last message replaces the total
AttEndAssigns ==
    /\ pc = "att_iter"
    /\ ai = Len(att_data.value)
    /\ NextLink(att_data) = NoneRec
    /\ att_url' = NextLink(att_data)
    /\ total_pdfs' = saved
    /\ pc' = "list_iter"
    /\ UNCHANGED <<clock, window, mailbox, local_dir, url, data, mi, msg,
                   att_data, ai, art, saved, total_msgs, call, storage,
                   localfs, raised, yielded, fetched, seen, uploads, io,
                   result, peer, stdout, capture>>

\* lines 187-191 without one: return saved; main adds it (line 215)
AttEnd ==
    /\ pc = "att_iter"
    /\ ai = Len(att_data.value)
    /\ NextLink(att_data) = NoneRec
    /\ att_url' = NextLink(att_data)
    /\ total_pdfs' = total_pdfs + saved
    /\ pc' = "list_iter"
    /\ UNCHANGED <<clock, window, mailbox, local_dir, url, data, mi, msg,
                   att_data, ai, art, saved, total_msgs, call, storage,
                   localfs, raised, yielded, fetched, seen, uploads, io,
                   result, peer, stdout, capture>>

Next ==
    \/ MainStart \/ TokenFails \/ GetBucket \/ BucketNotFound
    \/ ComputeWindow \/ ListStart
    \/ GraphGetThrottled \/ GraphGetThrottledRaises \/ GraphGetError
    \/ GraphGetOk
    \/ YieldPlain \/ YieldWithAttachments \/ ListNextPage \/ ListEnd
    \/ AttSkip \/ AttDecode \/ AttDecodeFails
    \/ LocalWrite \/ LocalWriteFails \/ Upload \/ UploadFails
    \/ AttNextPage \/ AttEnd

Spec == Init /\ [][Next]_vars

(***************************************************************************)
(* compute_window_cet alone, at every hour of the calendar.                *)
(***************************************************************************)
InitWindow ==
    /\ clock \in AllClocks
    /\ mailbox = <<>>
    /\ local_dir = None
    /\ peer = NoneRec
    /\ InitRest

NextWindow ==
    \/ MainStart \/ TokenFails \/ GetBucket \/ BucketNotFound \/ ComputeWindow

SpecWindow == InitWindow /\ [][NextWindow]_vars

\* main() is one thread of blocking calls: every call returns or raises, and
\* the statement after it runs
(***************************************************************************)
(* Two overlapping runs in one process: two sessions of the page press the *)
(* button, each in a thread of its own. A run's locals are private; the    *)
(* bucket, the cache directory, the mailbox, the clock and sys.stdout are  *)
(* the process's or the world's. The variables hold the run that is        *)
(* executing, peer the one that is waiting.                                *)
(***************************************************************************)
Private ==
    [pc |-> pc, window |-> window, url |-> url, data |-> data, mi |-> mi,
     msg |-> msg, att_url |-> att_url, att_data |-> att_data, ai |-> ai,
     art |-> art, saved |-> saved, total_msgs |-> total_msgs,
     total_pdfs |-> total_pdfs, call |-> call, raised |-> raised,
     yielded |-> yielded, fetched |-> fetched, seen |-> seen,
     uploads |-> uploads, io |-> io, result |-> result, capture |-> capture]

\* The positions at which the running thread gives way: before its first
\* step, after a step on something the runs share (sys.stdout, the bucket,
\* the cache directory) and once it has ended. Steps on a run's own state
\* commute with the other run's steps, so a switch anywhere else gives no
\* behaviour that a switch at one of these positions does not give.
SwitchPoints ==
    {"capture", "main", "list", "upload", "att_iter", "done", "raised",
     "returned"}

\* the interpreter passes control to the other thread: between any two steps
Switch ==
    /\ peer # NoneRec
    /\ pc \in SwitchPoints
    /\ peer' = Private
    /\ pc' = peer.pc /\ window' = peer.window /\ url' = peer.url
    /\ data' = peer.data /\ mi' = peer.mi /\ msg' = peer.msg
    /\ att_url' = peer.att_url /\ att_data' = peer.att_data /\ ai' = peer.ai
    /\ art' = peer.art /\ saved' = peer.saved
    /\ total_msgs' = peer.total_msgs /\ total_pdfs' = peer.total_pdfs
    /\ call' = peer.call /\ raised' = peer.raised /\ yielded' = peer.yielded
    /\ fetched' = peer.fetched /\ seen' = peer.seen /\ uploads' = peer.uploads
    /\ io' = peer.io /\ result' = peer.result /\ capture' = peer.capture
    /\ UNCHANGED <<clock, mailbox, local_dir, storage, localfs, stdout>>

\* streamlit_app.py, lines 11-14: a buffer, then redirect_stdout.__enter__:
\* sys.stdout is remembered and replaced by the buffer
CaptureEnter ==
    /\ pc = "capture"
    /\ capture' = [capture EXCEPT !.old = stdout.target]
    /\ stdout' = [stdout EXCEPT !.target = capture.id]
    /\ pc' = "main"
    /\ UNCHANGED <<clock, window, mailbox, local_dir, url, data, mi, msg,
                   att_url, att_data, ai, art, saved, total_msgs, total_pdfs,
                   call, storage, localfs, raised, yielded, fetched, seen,
                   uploads, io, result, peer>>

\* streamlit_app.py, lines 15-20: main() returned or raised (the exception
\* is caught); redirect_stdout.__exit__ puts the remembered target back and
\* the content of the buffer is returned
CaptureExit ==
    /\ pc \in {"done", "raised"}
    /\ capture.id # Console
    /\ stdout' = [stdout EXCEPT !.target = capture.old]
    /\ capture' = [capture EXCEPT !.output = stdout.buffers[capture.id]]
    /\ pc' = "returned"
    /\ UNCHANGED <<clock, window, mailbox, local_dir, url, data, mi, msg,
                   att_url, att_data, ai, art, saved, total_msgs, total_pdfs,
                   call, storage, localfs, raised, yielded, fetched, seen,
                   uploads, io, result, peer>>

\* the mailboxes of the two-run specification: one a run gets through, with
\* two pages of messages and names that collide, one with a payload that
\* does not decode
TwoRunMailboxes ==
    { SelectSeq(Catalogue, LAMBDA m : m.id \in S) :
        S \in {{"m2", "m10", "m5"}, {"m4"}} }

InitTwo ==
    /\ clock = 24 + 9
    /\ mailbox \in TwoRunMailboxes
    /\ local_dir = Downloads
    /\ pc = "capture"
    /\ window = NoneRec
    /\ url = NoneRec /\ data = NoneRec /\ mi = 0
    /\ msg = NoneRec
    /\ att_url = NoneRec /\ att_data = NoneRec /\ ai = 0
    /\ art = NoArt
    /\ saved = 0 /\ total_msgs = 0 /\ total_pdfs = 0
    /\ call = NoCall
    /\ storage = <<>> /\ localfs = <<>>
    /\ raised = NoneRec
    /\ yielded = <<>> /\ fetched = <<>> /\ seen = <<>> /\ uploads = <<>>
    /\ io = NoIo
    /\ result = <<>>
    /\ stdout = [target |-> Console, console |-> {}, buffers |-> <<{}, {}>>]
    /\ capture = [NoCapture EXCEPT !.id = 1]
    /\ peer = [pc |-> "capture", window |-> NoneRec, url |-> NoneRec,
               data |-> NoneRec, mi |-> 0, msg |-> NoneRec,
               att_url |-> NoneRec, att_data |-> NoneRec, ai |-> 0,
               art |-> NoArt, saved |-> 0, total_msgs |-> 0, total_pdfs |-> 0,
               call |-> NoCall, raised |-> NoneRec, yielded |-> <<>>,
               fetched |-> <<>>, seen |-> <<>>, uploads |-> <<>>, io |-> NoIo,
               result |-> <<>>, capture |-> [NoCapture EXCEPT !.id = 2]]

NextTwo == Next \/ Switch \/ CaptureEnter \/ CaptureExit

SpecTwo == InitTwo /\ [][NextTwo]_vars

\* mailboxes of MaxMsgs messages next to each other in time
Neighbours ==
    { SubSeq(Catalogue, i, i + MaxMsgs - 1) :
        i \in 1..(Len(Catalogue) - MaxMsgs + 1) }

InitLive ==
    /\ clock \in RunClocks
    /\ mailbox \in Neighbours
    /\ local_dir \in {None, Downloads}
    /\ peer = NoneRec
    /\ InitRest

SpecLive == InitLive /\ [][Next]_vars /\ WF_vars(Next)

(***************************************************************************)
(* What a chain of pages holds, read off the server alone.                 *)
(***************************************************************************)
IsPrefix(a, b) == Len(a) <= Len(b) /\ SubSeq(b, 1, Len(a)) = a

RECURSIVE ChainItems(_, _)
ChainItems(box, u) ==
    LET page == ServerGet(box, u)
    IN  page.value \o (IF page.nextLink = NoneRec THEN <<>>
                       ELSE ChainItems(box, page.nextLink))

RECURSIVE ChainUrls(_, _)
ChainUrls(box, u) ==
    LET page == ServerGet(box, u)
    IN  <<u>> \o (IF page.nextLink = NoneRec THEN <<>>
                  ELSE ChainUrls(box, page.nextLink))

\* the message chain of the run's window
FirstUrl == MessagesUrl(window.start_iso_z, window.end_iso_z)
ListedMessages == ChainItems(mailbox, FirstUrl)
ListedIds == [k \in 1..Len(ListedMessages) |-> ListedMessages[k].id]

\* the attachment entries and the attachment pages of the first n listed
\* messages, in order (messages without the flag have none)
RECURSIVE EntriesOf(_)
EntriesOf(n) ==
    IF n = 0 THEN <<>>
    ELSE LET m   == ListedMessages[n]
             all == ChainItems(mailbox, AttachmentsUrl(m.id))
         IN  EntriesOf(n - 1) \o
             (IF Truthy(m.hasAttachments)
              THEN [k \in 1..Len(all) |-> <<m.id, all[k]>>] ELSE <<>>)

RECURSIVE AttPagesOf(_)
AttPagesOf(n) ==
    IF n = 0 THEN <<>>
    ELSE LET m == ListedMessages[n]
         IN  AttPagesOf(n - 1) \o
             (IF Truthy(m.hasAttachments)
              THEN ChainUrls(mailbox, AttachmentsUrl(m.id)) ELSE <<>>)

MessagePagesFetched == SelectSeq(fetched, LAMBDA u : u.kind = "messages")
AttPagesFetched == SelectSeq(fetched, LAMBDA u : u.kind = "attachments")

\* C1: the two paging loops walk their chains once, in order, to the end:
\* the messages yielded, the attachment entries visited and the pages fetched
\* are at every moment a prefix of what the chains hold (nothing skipped,
\* repeated or reordered, no page fetched twice or beyond the last one); the
\* attachment loop has visited every entry of every page of its message when
\* it returns, and the message loop has yielded every message of every page
\* when the run completes.
C1_PagingWalksChainOnce ==
    window # NoneRec =>
        /\ IsPrefix(yielded, ListedIds)
        /\ IsPrefix(MessagePagesFetched, ChainUrls(mailbox, FirstUrl))
        /\ IsPrefix(seen, EntriesOf(Len(yielded)))
        /\ IsPrefix(AttPagesFetched, AttPagesOf(Len(yielded)))
        /\ pc \in {"list_iter", "list_get", "done"} =>
              /\ seen = EntriesOf(Len(yielded))
              /\ AttPagesFetched = AttPagesOf(Len(yielded))
        /\ pc = "done" =>
              /\ yielded = ListedIds
              /\ MessagePagesFetched = ChainUrls(mailbox, FirstUrl)

\* a completed run over a message chain of two pages, one of the messages
\* having an attachment chain of two pages
C1_Witness ==
    /\ pc = "done"
    /\ Len(MessagePagesFetched) >= 2
    /\ Len(yielded) > PageSize
    /\ \E k \in 1..Len(fetched) :
          fetched[k].kind = "attachments" /\ fetched[k].skip > 0
    /\ Len(seen) > PageSize

\* a step in which graph_get received an answer of a given kind
Answered == call'.attempts = call.attempts + 1 \/ call'.status # call.status

\* once an exception has left main() the run does nothing more
Aborted ==
    raised # NoneRec =>
        UNCHANGED <<call, fetched, io, storage, localfs, uploads, yielded, seen>>

\* C2 as stated: an answer of 429, 503 or 504 makes graph_get sleep and ask the same
\* url again, however many such answers came before: the request, the loop
\* position and everything yielded or fetched stay as they were, one more
\* attempt is counted, and no exception is raised for such a status.
C2_ThrottledRetriesSameRequest ==
    /\ [][(InGet /\ call'.status \in {429, 503, 504} /\ Answered) =>
            /\ call'.url = call.url
            /\ call'.attempts = call.attempts + 1
            /\ call'.slept > 0
            /\ UNCHANGED <<pc, url, att_url, data, att_data, mi, ai, yielded,
                           fetched, seen, raised>>]_vars
    /\ [](raised # NoneRec /\ raised.exc = "HTTPError" =>
            raised.detail \notin {429, 503, 504})

\* MaxThrottle throttled answers in a row to one attachment request, the run
\* still waiting for the page and no exception raised
C2_Witness ==
    /\ pc = "att_get"
    /\ call.attempts = MaxThrottle
    /\ call.status = 504
    /\ call.url = att_url
    /\ raised = NoneRec

\* C3: an answer with a status >= 400 other than 429/503/504 makes graph_get
\* raise at once (the request is not asked again), the exception leaves
\* main() as raised, and from then on no request, upload or local write
\* happens.
C3_HttpErrorAbortsRun ==
    /\ [][(InGet /\ call'.status >= 400 /\ call'.status \notin {429, 503, 504}
             /\ Answered) =>
            /\ raised' = Exc("HTTPError", call'.status)
            /\ pc' = "raised"]_vars
    /\ [][Aborted]_vars
    /\ [](raised # NoneRec => pc = "raised")

\* a 404 to an attachment listing after one object was uploaded, with
\* entries of the page before it still unvisited
C3_Witness ==
    /\ pc = "raised"
    /\ raised = Exc("HTTPError", 404)
    /\ call.url.kind = "attachments"
    /\ call.url.skip > 0
    /\ Len(uploads) >= 1
    /\ Len(yielded) < Len(ListedIds)

(***************************************************************************)
(* The window as instants.                                                 *)
(***************************************************************************)
WindowStart == ParseIsoZ(window.start_iso_z)
WindowEnd   == ParseIsoZ(window.end_iso_z)

\* the instants at which the zone's clocks show the cutoff hour
IsCutoff(u) == FromUtc(u).naive % 24 = CutoffHour

\* C4 as stated: the window is exactly 24 hours long between its UTC instants
C4_WindowIs24hInUtc ==
    window # NoneRec => WindowEnd - WindowStart = 24

\* C5: the window starts at the most recent instant at or before now at
\* which the zone shows 06:00 (today's cutoff when now has reached it, the
\* cutoff of the day before otherwise), and start <= now < end.
C5_StartIsLatestCutoff ==
    window # NoneRec =>
        /\ IsCutoff(WindowStart)
        /\ WindowStart <= clock
        /\ \A u \in (WindowStart + 1)..clock : ~IsCutoff(u)
        /\ clock < WindowEnd
        /\ window.start_local.naive =
              IF FromUtc(clock).naive % 24 >= CutoffHour
              THEN (FromUtc(clock).naive \div 24) * 24 + CutoffHour
              ELSE (FromUtc(clock).naive \div 24 - 1) * 24 + CutoffHour

\* now is exactly a cutoff instant, on the day the clocks went forward
C5_Witness ==
    /\ window # NoneRec
    /\ clock = WindowStart
    /\ UtcOffsetAt(clock) # UtcOffsetAt(clock - 24)

\* the message of the mailbox with a given id
Message(id) == CHOOSE m \in {mailbox[k] : k \in 1..Len(mailbox)} : m.id = id

\* C6: every message the listing yields was received at or after the start
\* of the window and before its end.
C6_YieldedInsideWindow ==
    \A k \in 1..Len(yielded) :
        /\ Message(yielded[k]).t >= WindowStart
        /\ Message(yielded[k]).t < WindowEnd

\* a completed run whose mailbox holds a message received exactly at the start
\* (yielded) and one received exactly at the end (not yielded)
C6_Witness ==
    /\ pc = "done"
    /\ \E k \in 1..Len(mailbox) :
          /\ mailbox[k].t = WindowStart
          /\ \E j \in 1..Len(yielded) : yielded[j] = mailbox[k].id
    /\ \E k \in 1..Len(mailbox) :
          /\ mailbox[k].t = WindowEnd
          /\ \A j \in 1..Len(yielded) : yielded[j] # mailbox[k].id

\* C7: of the uploads that completed under one name, the bucket holds one
\* object, with the bytes of the last of them.
C7_CollisionLastWriteWins ==
    /\ DOMAIN storage = {uploads[k].fname : k \in 1..Len(uploads)}
    /\ \A k \in 1..Len(uploads) :
          (\A j \in (k + 1)..Len(uploads) : uploads[j].fname # uploads[k].fname)
              => storage[uploads[k].fname] = uploads[k].blob

\* two completed uploads of different bytes under one name: the subjects
\* differ only beyond the 80th character
C7_Witness ==
    \E j, k \in 1..Len(uploads) :
        /\ j < k
        /\ uploads[j].fname = uploads[k].fname
        /\ uploads[j].blob # uploads[k].blob
        /\ Len(uploads[k].fname) > SubjectMax
        /\ Cardinality(DOMAIN storage) < Len(uploads)

\* C8 as stated: with a cache directory configured, an artifact whose local
\* write failed has had its upload attempted by the time the run stops
C8_UploadAttemptedAfterWriteFailure ==
    (pc = "raised" /\ raised.exc = "OSError" /\ local_dir # None) =>
        /\ Len(io.upload_calls) = Len(io.writes)
        /\ io.upload_calls[Len(io.upload_calls)] = art.fname

\* C9 as stated: a payload that does not decode never stops the run
C9_DecodeFailureDoesNotAbort ==
    ~(pc = "raised" /\ raised.exc = "binascii.Error")

\* C10: an upload that fails raises, the exception leaves main() as raised,
\* and from then on the run fetches, writes and uploads nothing: the entries
\* and messages after the failing artifact are never visited.
C10_UploadFailureAbortsRun ==
    /\ [][(pc = "upload"
             /\ Len(io'.upload_calls) = Len(io.upload_calls) + 1
             /\ uploads' = uploads) =>
            /\ raised' = Exc("GoogleAPIError", 0)
            /\ pc' = "raised"
            /\ UNCHANGED <<storage, saved, ai, seen, yielded>>]_vars
    /\ [][Aborted]_vars
    /\ [](raised # NoneRec /\ raised.exc = "GoogleAPIError" =>
            /\ pc = "raised"
            /\ Len(io.upload_calls) = Len(uploads) + 1
            /\ io.upload_calls[Len(io.upload_calls)] = art.fname)

\* the second upload of a run fails while an entry of the same page and a
\* later message are still to come
C10_Witness ==
    /\ pc = "raised"
    /\ raised.exc = "GoogleAPIError"
    /\ Len(uploads) = 1
    /\ ai + 1 < Len(att_data.value)
    /\ Len(yielded) < Len(ListedIds)
    /\ Len(seen) < Len(EntriesOf(Len(yielded)))

\* C11 as stated: a run whose window holds no message completes and hands
\* its caller the counts 0, 0 and an empty list of artifacts
C11_EmptyWindowReturnsEmptyResult ==
    (pc = "done" /\ ListedMessages = <<>>) =>
        result = <<[messagesScanned |-> 0, attachmentsSaved |-> 0,
                    artifacts |-> <<>>]>>

(***************************************************************************)
(* Case-insensitive comparison, written from pairs of letters.             *)
(***************************************************************************)
CasePairs ==
    {<<"A", "a">>, <<"D", "d">>, <<"F", "f">>, <<"I", "i">>, <<"P", "p">>}

SameLetter(a, b) == a = b \/ <<a, b>> \in CasePairs \/ <<b, a>> \in CasePairs

EqIgnoringCase(a, b) ==
    Len(a) = Len(b) /\ \A i \in 1..Len(a) : SameLetter(a[i], b[i])

DeclaredPdf(att) ==
    att.contentType # None /\ EqIgnoringCase(att.contentType, ApplicationPdf)

NamedPdf(att) ==
    /\ att.name # None
    /\ Len(att.name) >= Len(DotPdf)
    /\ EqIgnoringCase(
          SubSeq(att.name, Len(att.name) - Len(DotPdf) + 1, Len(att.name)),
          DotPdf)

\* the attachment entry an object name was derived from
Origin(name, entry) ==
    /\ \E k \in 1..Len(yielded) : yielded[k] = entry[1]
    /\ Fname(Project(Message(entry[1])), entry[2]) = name

\* C13: a file attachment with a payload is taken as a PDF (decoded, to be
\* stored) exactly when its content type is application/pdf or its name ends
\* in .pdf, case ignored; every upload comes from an entry meeting one of
\* the two.
C13_PdfIffTypeOrName ==
    /\ [][(AtEntry /\ seen' # seen
             /\ att_data.value[ai + 1].odata_type = FileAttachment
             /\ att_data.value[ai + 1].contentBytes \notin {None, <<>>}) =>
            ((art' # NoArt \/ raised' # NoneRec) <=>
                (DeclaredPdf(att_data.value[ai + 1])
                    \/ NamedPdf(att_data.value[ai + 1])))]_vars
    /\ [](\A k \in 1..Len(io.upload_calls) : \E j \in 1..Len(seen) :
            /\ Origin(io.upload_calls[k], seen[j])
            /\ DeclaredPdf(seen[j][2]) \/ NamedPdf(seen[j][2]))

\* notes.txt of type text/plain skipped; notes.txt of type Application/PDF
\* and Invoice.PDF without a type both uploaded
C13_Witness ==
    /\ \E j \in 1..Len(seen) : seen[j][2] = A_txt
    /\ \E j \in 1..Len(seen) : seen[j][2] = A_ctype
    /\ \E j \in 1..Len(seen) : seen[j][2] = A_upper
    /\ Len(uploads) = 2
    /\ pc = "att_iter"

\* C14 as stated: after a throttled answer graph_get has slept the number
\* of seconds of a numeric Retry-After, or 3 seconds when the header is
\* absent or not a number, and goes on to ask again
C14_SleepsRetryAfterOrDefault ==
    call.status \in {429, 503, 504} =>
        /\ raised = NoneRec
        /\ call.slept =
              IF call.retry_after # None /\ call.retry_after # <<>>
                    /\ \A i \in 1..Len(call.retry_after) :
                          IsDigit(call.retry_after[i])
              THEN IntOf(call.retry_after) ELSE DefaultDelay

\* C15: a message whose hasAttachments is false or absent is counted and
\* nothing else: no attachment request, no write, no upload, nothing added
\* to the total; and every attachment request names a message whose flag is
\* true.
C15_NoFlagNoAttachmentWork ==
    /\ [][(yielded' # yielded /\ msg'.hasAttachments # <<TRUE>>) =>
            /\ pc' = "list_iter"
            /\ total_pdfs' = total_pdfs
            /\ UNCHANGED <<call, att_url, fetched, seen, io, storage, localfs,
                           uploads>>]_vars
    /\ [](\A k \in 1..Len(fetched) :
            fetched[k].kind = "attachments" =>
                Message(fetched[k].mid).hasAttachments = <<TRUE>>)
    /\ [](call.url # NoneRec /\ call.url.kind = "attachments" =>
            Message(call.url.mid).hasAttachments = <<TRUE>>)

\* a completed run that yielded a message with the flag false and one
\* without the flag, the latter holding an attachment on the server
C15_Witness ==
    /\ pc = "done"
    /\ \E k \in 1..Len(yielded) :
          /\ Message(yielded[k]).hasAttachments = <<>>
          /\ Message(yielded[k]).atts # <<>>
    /\ \E k \in 1..Len(yielded) : Message(yielded[k]).hasAttachments = <<FALSE>>
    /\ fetched = MessagePagesFetched

\* C16: the bucket is looked up at most once, and it has been looked up
\* once before the window exists, before any request and before any
\* upload; a run that failed at the lookup has made no request, no upload
\* and no write.
C16_BucketLookedUpOnceFirst ==
    /\ io.lookups <= 1
    /\ (window # NoneRec \/ call # NoCall \/ fetched # <<>>
          \/ io.upload_calls # <<>> \/ pc = "done") => io.lookups = 1
    /\ (pc = "raised" /\ raised.exc = "RuntimeError" /\ io.lookups = 1) =>
          /\ window = NoneRec
          /\ call = NoCall /\ fetched = <<>>
          /\ io.upload_calls = <<>> /\ io.writes = <<>>
          /\ storage = <<>> /\ localfs = <<>>

\* the lookup failed
C16_Witness ==
    pc = "raised" /\ raised.exc = "RuntimeError" /\ io.lookups = 1

\* an entry that is a file attachment, a PDF by type or by name, with a
\* payload, of a message the listing yielded, stored under the given name
LegitimateOrigin(name, entry) ==
    /\ Origin(name, entry)
    /\ entry[2].odata_type = FileAttachment
    /\ DeclaredPdf(entry[2]) \/ NamedPdf(entry[2])
    /\ entry[2].contentBytes \notin {None, <<>>}

\* C17: every object in storage and in the local cache, and every upload
\* and local write attempted, comes from an attachment entry that is a file
\* attachment, a PDF, with a non-empty payload, of a yielded message; the
\* stored bytes are the decoded payload of such an entry.
C17_StoredObjectsHaveLegitimateOrigin ==
    /\ \A name \in DOMAIN storage : \E j \in 1..Len(seen) :
          /\ LegitimateOrigin(name, seen[j])
          /\ storage[name] = b64decode(seen[j][2].contentBytes).bytes
    /\ \A name \in DOMAIN localfs : \E j \in 1..Len(seen) :
          /\ LegitimateOrigin(name, seen[j])
          /\ localfs[name] = b64decode(seen[j][2].contentBytes).bytes
    /\ \A k \in 1..Len(io.upload_calls) : \E j \in 1..Len(seen) :
          LegitimateOrigin(io.upload_calls[k], seen[j])
    /\ \A k \in 1..Len(io.writes) : \E j \in 1..Len(seen) :
          LegitimateOrigin(io.writes[k], seen[j])

\* objects stored and cached while an entry without a payload was passed over
C17_Witness ==
    /\ pc = "done"
    /\ \E j \in 1..Len(seen) : seen[j][2] = A_empty
    /\ DOMAIN storage # {}
    /\ DOMAIN localfs # {}

\* the window the program computes at instant u, as a pair of instants
WindowAt(u) ==
    <<ParseIsoZ(compute_window_cet(u).start_iso_z),
      ParseIsoZ(compute_window_cet(u).end_iso_z)>>

\* C18: the window computed at the end of a window starts at that end, and
\* every window that holds the current instant is the current window: the
\* half-open windows tile the timeline, each instant in exactly one.
C18_WindowsTile ==
    window # NoneRec =>
        /\ WindowAt(WindowEnd)[1] = WindowEnd
        /\ WindowAt(WindowStart - 1)[2] = WindowStart
        /\ \A u \in AllClocks :
              (WindowAt(u)[1] <= clock /\ clock < WindowAt(u)[2])
                  <=> WindowAt(u) = <<WindowStart, WindowEnd>>

\* the window of the day the clocks go back, 25 hours long
C18_Witness ==
    /\ window # NoneRec
    /\ UtcOffsetAt(WindowStart) = DstOff
    /\ UtcOffsetAt(WindowEnd) = StdOff

\* C20: at the end of a completed run total_msgs is the number of messages
\* yielded and total_pdfs the number of completed uploads, which is at
\* least the number of objects in storage and greater when two uploads had
\* the same name.
C20_TotalsCountYieldsAndUploads ==
    pc = "done" =>
        /\ total_msgs = Len(yielded)
        /\ total_pdfs = Len(uploads)
        /\ total_pdfs >= Cardinality(DOMAIN storage)
        /\ (\E j, k \in 1..Len(uploads) :
                j < k /\ uploads[j].fname = uploads[k].fname)
              => total_pdfs > Cardinality(DOMAIN storage)

\* a completed run with a message without attachments, uploads from two
\* messages, and two uploads under one name
C20_Witness ==
    /\ pc = "done"
    /\ \E k \in 1..Len(yielded) : Message(yielded[k]).hasAttachments = <<FALSE>>
    /\ total_pdfs > saved
    /\ saved > 0
    /\ \E j, k \in 1..Len(uploads) :
          j < k /\ uploads[j].fname = uploads[k].fname
    /\ total_pdfs > Cardinality(DOMAIN storage)

\* C12: a run ends, by returning or by raising, when every chain of pages
\* is finite and every request is throttled finitely often.
C12_RunTerminates == <>(pc \in {"done", "raised"})

\* a second page of messages is being asked for, after MaxThrottle throttled
\* answers to that request
C12_Witness ==
    /\ pc = "list_get"
    /\ call.attempts = MaxThrottle
    /\ Len(fetched) > 0
    /\ raised = NoneRec

\* what a run on its own uploads, in order: the PDF file attachments with a
\* payload of the messages of the window that carry the flag
RECURSIVE SingleRunUploads(_)
SingleRunUploads(n) ==
    IF n = 0 THEN <<>>
    ELSE LET m    == ListedMessages[n]
             all  == ChainItems(mailbox, AttachmentsUrl(m.id))
             pdfs == SelectSeq(all, LAMBDA a :
                        /\ a.odata_type = FileAttachment
                        /\ DeclaredPdf(a) \/ NamedPdf(a)
                        /\ a.contentBytes \notin {None, <<>>})
         IN  SingleRunUploads(n - 1) \o
             (IF m.hasAttachments = <<TRUE>>
              THEN [k \in 1..Len(pdfs) |->
                      [fname |-> Fname(m, pdfs[k]),
                       blob  |-> b64decode(pdfs[k].contentBytes).bytes]]
              ELSE <<>>)

\* the content a sequence of uploads leaves: under each name the bytes of
\* the last upload of that name
LastWrite(ups) ==
    [name \in {ups[k].fname : k \in 1..Len(ups)} |->
        LET last == CHOOSE k \in 1..Len(ups) :
                       /\ ups[k].fname = name
                       /\ \A j \in (k + 1)..Len(ups) : ups[j].fname # name
        IN  ups[last].blob]

BothReturned ==
    /\ pc = "returned" /\ raised = NoneRec
    /\ peer.pc = "returned" /\ peer.raised = NoneRec

\* the part of C19 about the bucket: when both runs got through, each made
\* the uploads of a single run and the bucket holds what a single run leaves
C19_StorageAsSingleRun ==
    BothReturned =>
        /\ uploads = SingleRunUploads(Len(ListedMessages))
        /\ peer.uploads = uploads
        /\ storage = LastWrite(uploads)

\* C19 as stated: two overlapping runs have nothing in common but the bucket
\* and the cache directory: the bucket ends as a single run leaves it, each
\* artifact having been uploaded twice, and each run's captured output is
\* its own lines, sys.stdout being the console again afterwards
C19_OverlappingRunsIndependent ==
    BothReturned =>
        /\ C19_StorageAsSingleRun
        /\ capture.output = {capture.id}
        /\ peer.capture.output = {peer.capture.id}
        /\ stdout.console = {}
        /\ stdout.target = Console

====
